---- MODULE Spec2Model ----
(***************************************************************************)
(* Model of tap-wordpress-reviews: the review entity (WordpressReview),    *)
(* the paginated cursor (WordpressReviewsList) and the multi-plugin        *)
(* aggregator (WordpressReviews.reviews).                                  *)
(*                                                                         *)
(* Python values: None is the empty tuple, any other value v is <<v>>.     *)
(* An HTML document is the record of the elements the code looks up by     *)
(* tag and CSS class; an element that is not in the document is None.      *)
(***************************************************************************)
EXTENDS Integers, Sequences, FiniteSets, TLC

VARIABLES
    review,         \* SpecEntity: the WordpressReview object
    doc,            \* SpecEntity: detail page the server holds for review.path
    epc,            \* SpecEntity: "none" | "ready" | "failed" (constructor raised)
    eout,           \* SpecEntity: what the last call on the entity raised
    eparsed,        \* SpecEntity: "no" | "full" | "partial": how far a _parse
                    \*   got whose assignments the entity still holds
    cursor,         \* SpecCursor: the WordpressReviewsList object
    last,           \* SpecCursor: the outcome of the last next(cursor)
    ncalls,         \* SpecCursor: number of next(cursor) calls made
    nreturned,      \* SpecCursor: number of reviews those calls returned
    plugins,        \* Spec: WordpressReviews.plugins
    number,         \* Spec: WordpressReviews.number
    reviews_lists,  \* Spec: WordpressReviews.reviews_lists, plugin -> cursor
    gpc,            \* Spec: the generator reviews() returned: "created" |
                    \*   "suspended" (at its yield) | "finished" | "raised"
    gi,             \* Spec: position in plugins of the outer loop
    gn,             \* Spec: iterations the inner loop has completed
    graised,        \* Spec: what the last next(cursor) raised
    trace           \* Spec: the GETs made and the records written, in order

entityVars == <<review, doc, epc, eout, eparsed>>
cursorVars == <<cursor, last, ncalls, nreturned>>
runVars == <<plugins, number, reviews_lists, gpc, gi, gn, graised, trace>>
vars == <<entityVars, cursorVars, runVars>>

None == <<>>
Some(v) == <<v>>
Opt(S) == {None} \cup {Some(x) : x \in S}

\* ---------------------------------------------------------------- bounds
MaxTags == 1
MaxReplies == 1
MaxCalls == 60
MaxNumber == 2
MaxIndex == 65
MaxPageSize == 32

\* ------------------------------------------------------ program constants
CONNECTION_OK == 200

\* HTTP status codes a fetch can come back with.
Statuses == {200, 404, 503}

\* ------------------------------------------------------------ HTML pages
GoodDate == "April 3, 2024 at 10:15 am"
DateTexts == {GoodDate, "yesterday"}

RECURSIVE SeqsUpTo(_, _)
SeqsUpTo(S, n) ==
    IF n = 0 THEN {<<>>}
    ELSE LET shorter == SeqsUpTo(S, n - 1)
         IN  shorter \cup {Append(s, x) : s \in {t \in shorter : Len(t) = n - 1}, x \in S}

\* a div.reply block: span.bbp-author-name, div.bbp-reply-content (its <p>
\* texts), and the title of the anchor in p.bbp-reply-post-date
ReplyBlocks ==
    [author : Opt({"bob"}), content : Opt({<<"thanks">>}), date : Opt({GoodDate})]

DetailPages ==
    [title : Opt({"Great plugin"}),
     permalink : Opt(DateTexts),
     tags : Opt(SeqsUpTo({"seo"}, MaxTags)),
     rating : Opt({"5 out of 5 stars"}),
     author : Opt({"alice"}),
     content : Opt({<<>>, <<"works", "well">>}),
     reply_count : Opt({"3 replies"}),
     voice_count : Opt({"2 participants"}),
     replies : SeqsUpTo(ReplyBlocks, MaxReplies),
     \* div.by-plugin-support-rep: its author span and reply content
     support : Opt({[author |-> Some("carol"), content |-> Some(<<"we fixed it">>)],
                    [author |-> None, content |-> None]})]

\* ------------------------------------------------------- field extractor
\* '\n'.join(paragraph texts)
RECURSIVE JoinLines(_)
JoinLines(ps) ==
    IF Len(ps) = 0 THEN ""
    ELSE IF Len(ps) = 1 THEN ps[1]
    ELSE ps[1] \o "\n" \o JoinLines(Tail(ps))

\* datetime.strptime(text, '%B %d, %Y at %I:%M %p'); None on ValueError
Strptime(text) ==
    IF text = GoodDate
    THEN Some([year |-> 2024, month |-> 4, day |-> 3, hour |-> 10, minute |-> 15])
    ELSE None

\* int(rating_string[0])
LeadingDigit(title) == IF title = "5 out of 5 stars" THEN 5 ELSE 0

\* int(text.partition(' ')[0])
LeadingInt(text) ==
    IF text = "3 replies" THEN 3 ELSE IF text = "2 participants" THEN 2 ELSE 0

_find_title(html) == IF html.title = None THEN None ELSE Some(html.title[1])

_find_date(html) ==
    IF html.permalink = None THEN None
    ELSE LET reply_date == Strptime(html.permalink[1])
         IN  IF reply_date # None
             THEN Some([at |-> reply_date[1], tz |-> "utc"])
             ELSE None

_find_tags(html) == IF html.tags = None THEN None ELSE Some(html.tags[1])

_find_rating(html) ==
    IF html.rating = None THEN None ELSE Some(LeadingDigit(html.rating[1]))

_find_author(html) == IF html.author # None THEN Some(html.author[1]) ELSE None

\* soup.find('div', class_='bbp-topic-content').find_all('p'): the lookup of
\* the block is not guarded, so a missing block raises AttributeError
_find_text_raises(html) == html.content = None

_find_text(html) ==
    IF html.content[1] = <<>> THEN None ELSE Some(JoinLines(html.content[1]))

_find_replies_num(html) ==
    IF html.reply_count = None THEN None ELSE Some(LeadingInt(html.reply_count[1]))

_find_participants_num(html) ==
    IF html.voice_count = None THEN None ELSE Some(LeadingInt(html.voice_count[1]))

\* one comment dict: a key is there only when its element is
ReplyDict(reply) ==
    LET keys == {k \in {"author", "comment", "date"} :
                    \/ k = "author" /\ reply.author # None
                    \/ k = "comment" /\ reply.content # None
                    \/ k = "date" /\ reply.date # None}
    IN  [k \in keys |->
            IF k = "author" THEN Some(reply.author[1])
            ELSE IF k = "comment" THEN Some(JoinLines(reply.content[1]))
            ELSE LET reply_date == Strptime(reply.date[1])
                 IN  IF reply_date # None
                     THEN Some([at |-> reply_date[1], tz |-> "naive"])
                     ELSE None]

_find_replies(html) ==
    IF html.replies = <<>> THEN None
    ELSE Some([i \in 1..Len(html.replies) |-> ReplyDict(html.replies[i])])

_find_support(html) ==
    IF html.support = None THEN None
    ELSE IF html.support[1].author = None THEN None
    ELSE Some(html.support[1].author[1])

_find_support_comment(html) ==
    IF html.support = None THEN None
    ELSE IF html.support[1].content = None THEN None
    ELSE Some(JoinLines(html.support[1].content[1]))

\* --------------------------------------------------------- review entity
\* the attribute defaults of WordpressReview.__init__
DefaultFields ==
    [title |-> None, date |-> None, tags |-> Some(<<>>), rating |-> None,
     author |-> None, text |-> None, replies |-> None, participants |-> None,
     comments |-> Some(<<>>), support |-> None, support_comment |-> None]

FieldNames == DOMAIN DefaultFields

\* urlparse(url).path
_parse_url(url) == url.path

\* WordpressReview._parse: the assignments run in order, so an exception in
\* _find_text leaves the five fields before it assigned and the rest as
\* they were.  Result: the entity and whether the call raised.
_parse(self, html) ==
    LET upto_author ==
            [self EXCEPT !.title = _find_title(html),
                         !.date = _find_date(html),
                         !.tags = _find_tags(html),
                         !.rating = _find_rating(html),
                         !.author = _find_author(html)]
    IN  IF _find_text_raises(html)
        THEN [self |-> upto_author, raised |-> "AttributeError"]
        ELSE [self |->
                [upto_author EXCEPT
                    !.text = _find_text(html),
                    !.replies = _find_replies_num(html),
                    !.participants = _find_participants_num(html),
                    !.comments = _find_replies(html),
                    !.support = _find_support(html),
                    !.support_comment = _find_support_comment(html)],
              raised |-> "no"]

\* the end of WordpressReview.load: self.loaded = True, reached when _parse
\* did not raise
MarkLoaded(parsed) ==
    IF parsed.raised # "no" THEN parsed
    ELSE [self |-> [parsed.self EXCEPT !.loaded = TRUE], raised |-> "no"]

\* WordpressReview.load: one GET; a status other than 200 raises
\* ConnectionError before anything is assigned.
load(self, reply) ==
    IF reply.status # CONNECTION_OK
    THEN [self |-> self, raised |-> "ConnectionError"]
    ELSE MarkLoaded(_parse(self, reply.html))

\* to_dict that leaves support_comment out
to_dict_Dropped(self) == [k \in (FieldNames \ {"support_comment"}) \cup {"path"} |-> self[k]]

\* WordpressReview.to_dict
to_dict(self) == [k \in FieldNames \cup {"path"} |-> self[k]]

\* WordpressReview.tag
tag(self, n) ==
    IF self.tags # None /\ self.tags[1] # <<>>
    THEN IF n > Len(self.tags[1]) THEN None ELSE Some(self.tags[1][n])
    ELSE None

\* the object when WordpressReview.__init__ has assigned its path and
\* nothing else; loaded is FALSE while the attribute has not been assigned
Fresh(url) ==
    [DefaultFields @@ [path |-> _parse_url(url), loaded |-> FALSE]
        EXCEPT !.tags = None, !.comments = None]

\* the end of WordpressReview.__init__: every field is assigned its default
AssignDefaults(first) ==
    IF first.raised # "no" THEN first
    ELSE [self |-> [k \in DOMAIN first.self |->
                        IF k \in FieldNames THEN DefaultFields[k] ELSE first.self[k]],
          raised |-> "no"]

\* WordpressReview.__init__: the path is set, the review is loaded when
\* autoload is given, and then every field is assigned its default.
__init__(url, autoload, reply) ==
    AssignDefaults(IF autoload THEN load(Fresh(url), reply)
                   ELSE [self |-> Fresh(url), raised |-> "no"])

\* ---------------------------------------------------------------- cursor
WORDPRESS_REVIEWS_PER_PAGE == 30

\* the page the server lists for a plugin: `size` topics, each with its
\* permalink; the path of a topic is <<plugin, page, position>>
TopicUrl(plugin, page, pos) ==
    [scheme |-> "https", host |-> "wordpress.org", path |-> <<plugin, page, pos>>]

ListingReply(plugin, page, status, size) ==
    [status |-> status,
     topics |-> IF status = CONNECTION_OK
                THEN [i \in 1..size |-> TopicUrl(plugin, page, i)]
                ELSE <<>>]

\* WordpressReviewsList.__init__.  reviews names the list self.reviews is:
\* None for the initial empty list, <<p>> for the list cached as
\* page_html[p] (one list object under two names).  more is assigned by
\* _parse and read nowhere; it is left out.
NewCursor(plugin) ==
    [plugin |-> plugin, review_no |-> 1, page_html |-> <<>>,
     reviews |-> None, loaded |-> FALSE]

\* WordpressReviewsList._link
_link(self, page) ==
    IF page = 1 THEN <<"support", "plugin", self.plugin, "reviews">>
    ELSE <<"support", "plugin", self.plugin, "reviews", "page", page>>

\* WordpressReviewsList._parse: one unloaded WordpressReview per topic
ListParse(topics) ==
    [i \in 1..Len(topics) |-> __init__(topics[i], FALSE, None).self]

\* ceil(number / WORDPRESS_REVIEWS_PER_PAGE)
PageOf(no) ==
    (no + WORDPRESS_REVIEWS_PER_PAGE - 1) \div WORDPRESS_REVIEWS_PER_PAGE

\* LocalOffset without the move on a short page
LocalOffset_NoShortPage(no, page, size) == no - (page * WORDPRESS_REVIEWS_PER_PAGE)

\* LocalOffset one too far
LocalOffset_OffByOne(no, page, size) ==
    LET review_no == no - (page * WORDPRESS_REVIEWS_PER_PAGE) + 1
    IN  IF size < WORDPRESS_REVIEWS_PER_PAGE
        THEN review_no + (WORDPRESS_REVIEWS_PER_PAGE - size)
        ELSE review_no

\* review_no of _wp_review: number - page * 30, moved up on a short page
LocalOffset(no, page, size) ==
    LET review_no == no - (page * WORDPRESS_REVIEWS_PER_PAGE)
    IN  IF size < WORDPRESS_REVIEWS_PER_PAGE
        THEN review_no + (WORDPRESS_REVIEWS_PER_PAGE - size)
        ELSE review_no

\* list[i] that does not count a negative i from the end
PyIndex_NoWrap(size, i) == IF i >= 0 /\ i < size THEN i + 1 ELSE 0

\* Python's list[i]: the 1-based position list[i] reads, 0 when i is out of
\* range (IndexError); a negative i counts from the end
PyIndex(size, i) ==
    IF i >= 0 /\ i < size THEN i + 1
    ELSE IF i < 0 /\ i >= -size THEN size + i + 1
    ELSE 0

\* WordpressReviewsList.load: GET the listing page; a status other than
\* 200 raises ConnectionError with nothing assigned
ListLoad(self, page, reply) ==
    IF reply.status # CONNECTION_OK
    THEN [self |-> self, raised |-> "ConnectionError"]
    ELSE [self |-> [self EXCEPT !.reviews = Some(page), !.loaded = TRUE,
                                !.page_html = (page :> ListParse(reply.topics)) @@ @],
          raised |-> "no"]

\* _wp_review, first part: the page is loaded unless it is cached.
\* Result: the cursor, what was raised, and the GETs made.
FetchPage(self, page, lreply) ==
    IF page \in DOMAIN self.page_html
    THEN [self |-> self, raised |-> "no", gets |-> <<>>]
    ELSE ListLoad(self, page, lreply)
            @@ [gets |-> << [get |-> "listing", at |-> _link(self, page),
                             status |-> lreply.status] >>]

\* _wp_review, last part: review.load() and return review
LoadPicked(self, page, pos, gets, status, done) ==
    [self |-> [self EXCEPT !.page_html[page][pos] = done.self],
     raised |-> done.raised,
     ret |-> IF done.raised = "no" THEN Some(done.self) ELSE None,
     gets |-> Append(gets, [get |-> "detail", at |-> self.page_html[page][pos].path,
                            status |-> status])]

\* _wp_review, middle part: StopIteration when review_no > 0, else the
\* review at [review_no - 1] of the page
PickReview(self, page, review_no, gets, dreply) ==
    IF review_no > 0
    THEN [self |-> self, raised |-> "StopIteration", ret |-> None, gets |-> gets]
    ELSE IF PyIndex(Len(self.page_html[page]), review_no - 1) = 0
    THEN [self |-> self, raised |-> "IndexError", ret |-> None, gets |-> gets]
    ELSE LoadPicked(self, page, PyIndex(Len(self.page_html[page]), review_no - 1),
                    gets, dreply.status,
                    load(self.page_html[page][PyIndex(Len(self.page_html[page]),
                                                       review_no - 1)], dreply))

AfterFetch(listed, no, page, dreply) ==
    IF listed.raised # "no"
    THEN [self |-> listed.self, raised |-> listed.raised, ret |-> None,
          gets |-> listed.gets]
    ELSE PickReview(listed.self, page,
                    LocalOffset(no, page, Len(listed.self.page_html[page])),
                    listed.gets, dreply)

\* WordpressReviewsList._wp_review.  lreply answers the listing GET and
\* dreply the detail GET, when the call makes them.  Result: the cursor,
\* what was raised ("no" when a review is returned), the review returned,
\* and the GETs made, in order.
_wp_review(self, no, lreply, dreply) ==
    AfterFetch(FetchPage(self, PageOf(no), lreply), no, PageOf(no), dreply)

\* __next__ that does not advance review_no
__next___NoAdvance(self, lreply, dreply) ==
    _wp_review(self, self.review_no, lreply, dreply)

\* WordpressReviewsList.__next__: review_no is advanced before the lookup
__next__(self, lreply, dreply) ==
    _wp_review([self EXCEPT !.review_no = @ + 1], self.review_no, lreply, dreply)

\* ------------------------------------------------ SpecEntity: one review
ReviewUrl == [scheme |-> "https", host |-> "wordpress.org", path |-> <<"akismet", 1, 1>>]

NoReview == [DefaultFields @@ [path |-> <<>>, loaded |-> FALSE]
                EXCEPT !.tags = None, !.comments = None]

\* a detail page with every element, and the same page without its
\* div.bbp-topic-content
FullPage ==
    [title |-> Some("Great plugin"), permalink |-> Some(GoodDate),
     tags |-> Some(<<"seo">>), rating |-> Some("5 out of 5 stars"),
     author |-> Some("alice"), content |-> Some(<<"works", "well">>),
     reply_count |-> Some("3 replies"), voice_count |-> Some("2 participants"),
     replies |-> << [author |-> Some("bob"), content |-> Some(<<"thanks">>),
                     date |-> Some(GoodDate)] >>,
     support |-> Some([author |-> Some("carol"), content |-> Some(<<"we fixed it">>)])]

NoContentPage == [FullPage EXCEPT !.content = None]

NoCall == [number |-> 0, raised |-> "no", ret |-> None, gets |-> <<>>]

\* what GET https://wordpress.org{path} answers: the page, or a failure
DetailReply(status) == [status |-> status, html |-> doc]

EntityIdle ==
    /\ review = NoReview
    /\ epc = "none"
    /\ eout = "no"
    /\ eparsed = "no"

RunIdle ==
    /\ plugins = <<>>
    /\ number = 0
    /\ reviews_lists = <<>>
    /\ gpc = "finished"
    /\ gi = 0
    /\ gn = 0
    /\ graised = "no"
    /\ trace = <<>>

CursorIdle ==
    /\ cursor = NewCursor("akismet")
    /\ last = NoCall
    /\ ncalls = 0
    /\ nreturned = 0

InitEntity ==
    /\ doc \in DetailPages
    /\ EntityIdle
    /\ CursorIdle
    /\ RunIdle

\* review = WordpressReview(url, autoload)
Construct ==
    /\ epc = "none"
    /\ \E autoload \in BOOLEAN, status \in Statuses :
       \E made \in {__init__(ReviewUrl, autoload, DetailReply(status))} :
              /\ review' = made.self
              /\ eout' = made.raised
              /\ epc' = IF made.raised = "no" THEN "ready" ELSE "failed"
              /\ eparsed' = IF made.raised = "AttributeError" THEN "partial" ELSE "no"
    /\ UNCHANGED <<doc, cursorVars, runVars>>

\* review.load()
Load ==
    /\ epc = "ready"
    /\ \E status \in Statuses :
       \E done \in {load(review, DetailReply(status))} :
              /\ review' = done.self
              /\ eout' = done.raised
              /\ eparsed' = IF done.raised = "no" THEN "full"
                             ELSE IF done.raised = "AttributeError" THEN "partial"
                             ELSE eparsed
    /\ UNCHANGED <<doc, epc, cursorVars, runVars>>

NextEntity == Construct \/ Load

SpecEntity == InitEntity /\ [][NextEntity]_vars

\* ------------------------------------------------ SpecCursor: one cursor
\* A client calls next() on one cursor.  StopIteration ends a for loop but
\* the client may call next() again; any other exception propagates out of
\* the client, as it does out of WordpressReviews.reviews.
InitCursor ==
    /\ doc = FullPage
    /\ EntityIdle
    /\ CursorIdle
    /\ RunIdle

Propagates(raised) == raised \notin {"no", "StopIteration"}

\* What the server can answer to the GETs of one next(cursor).  The
\* listing GET is made only when the page is not cached yet: any status,
\* and with 200 any number of topics up to a full page.  The detail GET:
\* any status, and with 200 the page with or without its content block.
\* An answer to a GET the call does not make is not read.
ListingAnswers(self) ==
    LET page == PageOf(self.review_no)
    IN  IF page \in DOMAIN self.page_html
        THEN {ListingReply(self.plugin, page, CONNECTION_OK, 0)}
        ELSE {ListingReply(self.plugin, page, CONNECTION_OK, size) :
                    size \in 0..WORDPRESS_REVIEWS_PER_PAGE}
             \cup {ListingReply(self.plugin, page, status, 0) :
                    status \in Statuses \ {CONNECTION_OK}}

DetailAnswers ==
    {[status |-> CONNECTION_OK, html |-> html] : html \in {FullPage, NoContentPage}}
    \cup {[status |-> status, html |-> None] : status \in Statuses \ {CONNECTION_OK}}

\* next(cursor)
CursorNext ==
    /\ ncalls < MaxCalls
    /\ ~Propagates(last.raised)
    /\ \E lreply \in ListingAnswers(cursor) :
       \E dreply \in DetailAnswers :
       \E done \in {__next__(cursor, lreply, dreply)} :
              /\ cursor' = done.self
              /\ last' = [number |-> cursor.review_no, raised |-> done.raised,
                           ret |-> done.ret, gets |-> done.gets]
              /\ nreturned' = IF done.raised = "no" THEN nreturned + 1 ELSE nreturned
    /\ ncalls' = ncalls + 1
    /\ UNCHANGED <<entityVars, runVars>>

NextCursor == CursorNext

SpecCursor == InitCursor /\ [][NextCursor]_vars

\* ------------------------------------------------- one _wp_review(number)
\* cursor._wp_review(n) on a new cursor, for any n: the listing GET of page
\* ceil(n/30) is answered with any status and, with 200, with any number
\* of topics, a full page or fewer or more.
Select ==
    /\ ncalls = 0
    /\ \E n \in 1..MaxIndex, size \in 0..MaxPageSize, status \in Statuses :
       \E dreply \in DetailAnswers :
       \E done \in {_wp_review(cursor, n,
                               ListingReply(cursor.plugin, PageOf(n), status, size),
                               dreply)} :
              /\ (status # CONNECTION_OK) => size = 0
              /\ cursor' = done.self
              /\ last' = [number |-> n, raised |-> done.raised,
                           ret |-> done.ret, gets |-> done.gets]
              /\ nreturned' = IF done.raised = "no" THEN 1 ELSE 0
    /\ ncalls' = 1
    /\ UNCHANGED <<entityVars, runVars>>

NextSelect == Select

SpecSelect == InitCursor /\ [][NextSelect]_vars

\* ------------------------------------------------- Spec: one run of sync
PluginNames == {"akismet", "wordpress-seo"}

\* the config's plugins: one name, or a list of distinct names
PluginInputs ==
    {[str |-> name] : name \in PluginNames}
    \cup {[list |-> l] : l \in {s \in SeqsUpTo(PluginNames, Cardinality(PluginNames)) :
                                    \A i, j \in 1..Len(s) : s[i] = s[j] => i = j}}

\* the config's number: a few reviews, or one more than a full page
Numbers == (1..MaxNumber) \cup {WORDPRESS_REVIEWS_PER_PAGE + 1}

\* WordpressReviews.__init__
NormalisePlugins(input) ==
    IF "str" \in DOMAIN input THEN <<input.str>> ELSE input.list

NewReviewsLists(names) ==
    [plugin \in {names[i] : i \in 1..Len(names)} |-> NewCursor(plugin)]

Init ==
    /\ doc = FullPage
    /\ EntityIdle
    /\ CursorIdle
    /\ \E input \in PluginInputs :
          /\ plugins = NormalisePlugins(input)
          /\ reviews_lists = NewReviewsLists(NormalisePlugins(input))
    /\ number \in Numbers
    /\ gpc = "created"
    /\ gi = 1
    /\ gn = 0
    /\ graised = "no"
    /\ trace = <<>>

\* a handler that catches every exception
Caught_Exception(raised) == raised # "no"

\* except StopIteration: the one exception reviews() catches
Caught(raised) == raised = "StopIteration"

\* record = next(...).to_dict(); record['plugin'] = plugin
Tagged(entity, plugin) == to_dict(entity) @@ [plugin |-> plugin]

GetEvents(gets) == [i \in 1..Len(gets) |-> gets[i] @@ [ev |-> "get"]]

\* One iteration of sync's `for row in wp.reviews()`: the generator is
\* resumed and runs to its next yield, to its end or to an exception, and
\* the row it yields is written.  The inner loop runs `number` times for a
\* plugin; the break in the handler of StopIteration leaves the loop over
\* the plugins.
Resume ==
    /\ gpc \in {"created", "suspended"}
    /\ LET at == IF gn < number THEN <<gi, gn>> ELSE <<gi + 1, 0>>
       IN  IF at[1] > Len(plugins)
           THEN /\ gpc' = "finished"
                /\ gi' = at[1]
                /\ gn' = at[2]
                /\ UNCHANGED <<reviews_lists, graised, trace>>
           ELSE LET plugin == plugins[at[1]]
                    self == reviews_lists[plugin]
                IN  \E lreply \in ListingAnswers(self) :
                    \E dreply \in DetailAnswers :
                    \E done \in {__next__(self, lreply, dreply)} :
                           /\ reviews_lists' = [reviews_lists EXCEPT ![plugin] = done.self]
                           /\ graised' = done.raised
                           /\ gi' = at[1]
                           /\ IF done.raised = "no"
                              THEN /\ trace' = Append(trace \o GetEvents(done.gets),
                                                      [ev |-> "emit",
                                                       record |-> Tagged(done.ret[1], plugin)])
                                   /\ gn' = at[2] + 1
                                   /\ gpc' = "suspended"
                              ELSE /\ trace' = trace \o GetEvents(done.gets)
                                   /\ gn' = at[2]
                                   /\ gpc' = IF Caught(done.raised) THEN "finished"
                                             ELSE "raised"
    /\ UNCHANGED <<plugins, number, entityVars, cursorVars>>

Next == Resume

Spec == Init /\ [][Next]_vars

\* ================================================================ claims
\* the listing page that holds the i-th review when every page before it
\* is full, and the position of the i-th review on it, from 1
PageHolding(i) ==
    CHOOSE p \in 1..i : /\ (p - 1) * WORDPRESS_REVIEWS_PER_PAGE < i
                        /\ i <= p * WORDPRESS_REVIEWS_PER_PAGE

PlaceOn(i) == i - (PageHolding(i) - 1) * WORDPRESS_REVIEWS_PER_PAGE

FullBefore(self, p) ==
    \A q \in 1..(p - 1) :
        /\ q \in DOMAIN self.page_html
        /\ Len(self.page_html[q]) = WORDPRESS_REVIEWS_PER_PAGE

NEmitted == Cardinality({i \in 1..Len(trace) : trace[i].ev = "emit"})

\* C1: when the cursor of one plugin is exhausted before `number` reviews,
\* reviews() goes on with the next plugin: a run that ends without an error
\* has pulled the cursor of every requested plugin.
C1_ExhaustionContinuesWithNextPlugin ==
    gpc = "finished" =>
        \A i \in 1..Len(plugins) : reviews_lists[plugins[i]].review_no > 1

\* C2: once next() has signalled StopIteration on a cursor, the next call
\* on that cursor signals StopIteration too.
C2_ExhaustionIsStable ==
    [][last.raised = "StopIteration" => last'.raised = "StopIteration"]_vars

\* C3: for a plugin with T reviews the first T calls return a review and
\* call T+1 signals StopIteration, never an error.  Call T+1 is the call
\* whose place on its page is one past the topics the page lists (a short
\* or empty last page), or the first of a page the server does not have
\* (404) after full pages.
C3_EndOfDataIsNeverAnError ==
    ncalls > 0 =>
        LET p == PageHolding(last.number)
            j == PlaceOn(last.number)
            onePast ==
                \/ /\ p \in DOMAIN cursor.page_html
                   /\ Len(cursor.page_html[p]) = j - 1
                \/ /\ p > 1 /\ j = 1
                   /\ p \notin DOMAIN cursor.page_html
                   /\ last.gets # <<>>
                   /\ last.gets[1].status = 404
        IN  (FullBefore(cursor, p) /\ onePast) =>
                /\ last.raised = "StopIteration"
                /\ nreturned = last.number - 1

\* C4: on a final page p with k reviews, 1 <= k < 30, after full pages, the
\* call for index 30(p-1)+k selects the last review of the page (and returns
\* it when its detail page loads) and the call for index 30(p-1)+k+1 signals
\* StopIteration.
C4_ShortFinalPageBoundary ==
    ncalls > 0 =>
        LET p == PageHolding(last.number)
            j == PlaceOn(last.number)
        IN  (p \in DOMAIN cursor.page_html /\ FullBefore(cursor, p)) =>
                LET k == Len(cursor.page_html[p])
                    lastOne == <<cursor.plugin, p, k>>
                IN  (1 <= k /\ k < WORDPRESS_REVIEWS_PER_PAGE) =>
                        /\ j = k =>
                              /\ last.raised # "StopIteration"
                              /\ last.gets # <<>>
                              /\ last.gets[Len(last.gets)].get = "detail"
                              /\ last.gets[Len(last.gets)].at = lastOne
                              /\ last.raised = "no" =>
                                    /\ last.ret[1].path = lastOne
                                    /\ last.ret[1].loaded
                        /\ j = k + 1 =>
                              /\ last.raised = "StopIteration"
                              /\ last.gets = <<>>

C4_Witness ==
    /\ ncalls = 2 * WORDPRESS_REVIEWS_PER_PAGE
    /\ nreturned = ncalls - 1
    /\ 2 \in DOMAIN cursor.page_html
    /\ Len(cursor.page_html[2]) = WORDPRESS_REVIEWS_PER_PAGE - 1
    /\ last.raised = "StopIteration"

\* C5: the review returned for index i is the one at position (i-1) mod 30
\* (from 0) of listing page ceil(i/30), and while every call has returned a
\* review the n-th call returns the n-th review of the listing.
C5_IndexMapping ==
    (ncalls > 0 /\ last.raised = "no") =>
        /\ last.ret[1].path =
              <<cursor.plugin, PageHolding(last.number),
                ((last.number - 1) % WORDPRESS_REVIEWS_PER_PAGE) + 1>>
        /\ nreturned = ncalls => last.number = nreturned

C5_Witness ==
    /\ last.raised = "no"
    /\ nreturned = WORDPRESS_REVIEWS_PER_PAGE + 5
    /\ Len(cursor.page_html[2]) = 5
    /\ last.ret[1].path = <<cursor.plugin, 2, 5>>

\* C6: review_no starts at 1 and grows by one with each review returned
\* and with nothing else: review_no - 1 is the number of reviews returned.
C6_IndexCountsReturnedReviews == cursor.review_no = nreturned + 1

\* C7: a GET answered with a status other than 200 is the last thing the
\* run does: it is made once, ConnectionError leaves reviews(), and no GET
\* and no record follows it.
C7_NonOkFetchIsFatal ==
    /\ \A i \in 1..Len(trace) :
          (trace[i].ev = "get" /\ trace[i].status # CONNECTION_OK) =>
              /\ i = Len(trace)
              /\ gpc = "raised"
              /\ graised = "ConnectionError"
    /\ graised = "ConnectionError" =>
          /\ gpc = "raised"
          /\ trace # <<>>
          /\ trace[Len(trace)].ev = "get"
          /\ trace[Len(trace)].status # CONNECTION_OK

C7_Witness ==
    /\ gpc = "raised"
    /\ graised = "ConnectionError"
    /\ Len(plugins) = 2
    /\ gi = 1
    /\ NEmitted > 0
    /\ trace[Len(trace)].get = "detail"

\* what the run does for the first k reviews of one plugin: the listing
\* page right before the first review of the page, then for each review
\* its detail page and its record
RECURSIVE ExpectedRun(_, _)
ExpectedRun(plugin, k) ==
    IF k = 0 THEN <<>>
    ELSE LET p == PageHolding(k)
             path == <<plugin, p, PlaceOn(k)>>
             listing ==
                IF PlaceOn(k) # 1 THEN <<>>
                ELSE IF p = 1
                THEN << <<"listing", <<"support", "plugin", plugin, "reviews">> >> >>
                ELSE << <<"listing", <<"support", "plugin", plugin, "reviews", "page", p>> >> >>
         IN  ExpectedRun(plugin, k - 1) \o listing
                \o << <<"detail", path>>, <<"emit", plugin, path>> >>

RunSoFar ==
    [i \in 1..Len(trace) |->
        IF trace[i].ev = "get" THEN <<trace[i].get, trace[i].at>>
        ELSE <<"emit", trace[i].record.plugin, trace[i].record.path>>]

\* C8: for one plugin with at least `number` reviews and every GET answered
\* 200, the run is: each listing page once, right before the first detail
\* page of a review on it, the detail pages in listing order, each record
\* written before the next detail page is fetched; and exactly `number`
\* records, tagged with the plugin.
C8_SinglePluginRun ==
    (Len(plugins) = 1 /\ graised = "no") =>
        /\ RunSoFar = ExpectedRun(plugins[1], NEmitted)
        /\ NEmitted <= number
        /\ gpc = "finished" => NEmitted = number
        /\ \A i \in 1..Len(trace) : trace[i].ev = "emit" => trace[i].record.path # None

C8_Witness ==
    /\ Len(plugins) = 1
    /\ graised = "no"
    /\ gpc = "finished"
    /\ number = WORDPRESS_REVIEWS_PER_PAGE + 1
    /\ NEmitted = number

TwelveKeys ==
    {"path", "title", "date", "tags", "rating", "author", "text", "replies",
     "participants", "comments", "support", "support_comment"}

C10_ParseNeverRaises ==
    /\ eout \in {"no", "ConnectionError"}
    /\ (epc = "ready" /\ eparsed = "full") =>
          /\ doc.title = None => review.title = None
          /\ doc.permalink = None => review.date = None
          /\ doc.tags = None => review.tags = None
          /\ doc.rating = None => review.rating = None
          /\ doc.author = None => review.author = None
          /\ doc.reply_count = None => review.replies = None
          /\ doc.voice_count = None => review.participants = None
          /\ doc.replies = <<>> => review.comments = None
          /\ doc.support = None =>
                (review.support = None /\ review.support_comment = None)

\* C11: when WordpressReview(url, autoload=True) returns, the review is
\* marked loaded and its fields hold what its detail page gives, as after
\* WordpressReview(url) followed by load().  Within the constructor only
\* autoload marks the review loaded.
C11_AutoloadLoadsTheReview ==
    [][(epc = "none" /\ epc' = "ready" /\ review'.loaded) =>
          review' = load(__init__(ReviewUrl, FALSE, None).self,
                         DetailReply(CONNECTION_OK)).self]_vars

\* C12: for every index n and every size s of the fetched listing page
\* ceil(n/30), _wp_review signals StopIteration or reads a position the
\* page has, never one outside it (IndexError), and it signals
\* StopIteration exactly when s < 30 and n is more than s places into the
\* page.
C12_SelectionInRange ==
    (ncalls > 0 /\ PageHolding(last.number) \in DOMAIN cursor.page_html) =>
        LET p == PageHolding(last.number)
            j == PlaceOn(last.number)
            s == Len(cursor.page_html[p])
        IN  /\ last.raised # "IndexError"
            /\ last.raised = "StopIteration" <=>
                    (s < WORDPRESS_REVIEWS_PER_PAGE /\ j > s)
            /\ last.raised # "StopIteration" =>
                    /\ Len(last.gets) = 2
                    /\ last.gets[2].get = "detail"
                    /\ \E k \in 1..s : last.gets[2].at = <<cursor.plugin, p, k>>

C12_Witness ==
    /\ ncalls = 1
    /\ last.number = WORDPRESS_REVIEWS_PER_PAGE + 1
    /\ 2 \in DOMAIN cursor.page_html
    /\ Len(cursor.page_html[2]) = WORDPRESS_REVIEWS_PER_PAGE + 1
    /\ last.raised = "no"
    /\ last.ret[1].path = <<cursor.plugin, 2, 2>>

====
